---- MODULE Spec2Model ----
(***************************************************************************)
(* A model of the stock-data ingestion code: the StockCrawler adapters     *)
(* (crawlers/stock_crawler.py), the two Airflow tasks of one work unit     *)
(* (dags/stock_data_pipeline.py) and the bulk transfer                     *)
(* (utils/fix_data_transfer.py).                                           *)
(*                                                                         *)
(* Encoding.  A DataFrame is [columns, rows]: the column names in order    *)
(* and one function column -> cell per row.  A cell is <<v>> for a value   *)
(* and <<>> for NaN / None / SQL NULL.  Floats are integers: a mean, a     *)
(* percentage and a deviation are truncated by \div.  Timestamps are       *)
(* integers.  A table is the sequence of its stored rows, so that a        *)
(* duplicate row is representable.                                         *)
(***************************************************************************)
EXTENDS Integers, Sequences, FiniteSets, TLC

\* ------------------------------------------------------------------ bounds
\* Longest series a provider returns in the model (and its last timestamp).
MaxLen == 20
\* The data sets ("versions") a provider may hold are numbered 1..NumVersions.
NumVersions == 2
\* DAG runs of one work unit.
MaxRuns == 2
\* StockCrawler instances of one process.
MaxCrawlers == 2
\* Objects listed by the bulk transfer.
MaxFiles == 3

\* ------------------------------------------------------- program constants
SMA_SHORT == 20
SMA_MID == 50
SMA_LONG == 200
VOL_WINDOW == 10
MOCK_POINTS == 100
MOCK_DAILY_POINTS == 365
COMMIT_EVERY == 10
PAGE_SIZE == 100

\* ------------------------------------------------------------------- cells
NaN == <<>>

Cell(v) == <<v>>

NotNa(c) == c # NaN

Num(c) == c[1]

KeyCols == <<"symbol", "timestamp", "timeframe">>

BaseCols == <<"open", "high", "low", "close", "volume">>

IndicatorCols ==
    <<"sma_20", "sma_50", "sma_200", "daily_return", "volatility_10d",
      "volume_change", "rs_50">>

\* The columns of stock_data_v2 that the insert statement may name.
V2Cols == KeyCols \o BaseCols \o IndicatorCols

\* The columns of the legacy stock_data table.
LegacyKeyCols == <<"symbol", "timestamp">>

LegacyCols == LegacyKeyCols \o BaseCols

Range(s) == {s[i] : i \in 1..Len(s)}

RECURSIVE SelectCols(_, _)
SelectCols(cols, keep) ==
    IF cols = <<>> THEN <<>>
    ELSE IF Head(cols) \in keep THEN <<Head(cols)>> \o SelectCols(Tail(cols), keep)
    ELSE SelectCols(Tail(cols), keep)

EmptyFrame == [columns |-> <<>>, rows |-> <<>>]

IsEmpty(df) == Len(df.rows) = 0

\* --------------------------------------------------------- provider data
\* The data sets the providers offer in the model: the first and the last.
Versions == {1, NumVersions}

\* What a provider holds for timestamp t in data set ver.
Price(t, ver) == 100 + ((t * ver) % 7)

Volume(t, ver) == 1000 + 10 * ((t + ver) % 5)

\* ticker.history(...) after reset_index/rename and the symbol and timeframe
\* columns: n rows, the n most recent timestamps, ascending.
YahooFrame(symbol, timeframe, n, ver) ==
    [columns |-> KeyCols \o BaseCols,
     rows |-> [i \in 1..n |->
        LET t == MaxLen - n + i IN
        [symbol |-> Cell(symbol), timestamp |-> Cell(t), timeframe |-> Cell(timeframe),
         open |-> Cell(Price(t, ver) - 1), high |-> Cell(Price(t, ver) + 2),
         low |-> Cell(Price(t, ver) - 2), close |-> Cell(Price(t, ver)),
         volume |-> Cell(Volume(t, ver))]]]

\* --------------------------------------------------------------- indicators
RECURSIVE SumOver(_, _, _)
SumOver(f, lo, hi) == IF lo > hi THEN 0 ELSE f[lo] + SumOver(f, lo + 1, hi)

IntSqrt(v) == CHOOSE r \in 0..v : r * r <= v /\ (r + 1) * (r + 1) > v

\* rolling(window, min_periods=1).mean(): a value from the first point on.
RollingMeanFromFirst(xs, window) ==
    [i \in 1..Len(xs) |->
        LET lo == IF i >= window THEN i - window + 1 ELSE 1 IN
        Cell(SumOver([j \in 1..Len(xs) |-> IF NotNa(xs[j]) THEN Num(xs[j]) ELSE 0], lo, i)
             \div (i - lo + 1))]

\* Series.rolling(window).mean(): NaN until the window is full.
RollingMean(xs, window) ==
    [i \in 1..Len(xs) |->
        IF i >= window /\ \A j \in (i - window + 1)..i : NotNa(xs[j])
        THEN Cell(SumOver([j \in 1..Len(xs) |-> IF NotNa(xs[j]) THEN Num(xs[j]) ELSE 0],
                          i - window + 1, i) \div window)
        ELSE NaN]

\* A percent change that reports 0 at the first point.
PctChangeZeroFirst(xs) ==
    [i \in 1..Len(xs) |->
        IF i = 1 THEN Cell(0)
        ELSE IF NotNa(xs[i]) /\ NotNa(xs[i - 1]) /\ Num(xs[i - 1]) # 0
        THEN Cell(((Num(xs[i]) - Num(xs[i - 1])) * 100) \div Num(xs[i - 1]))
        ELSE NaN]

\* Series.pct_change() * 100: NaN at the first point.
PctChange(xs) ==
    [i \in 1..Len(xs) |->
        IF i >= 2 /\ NotNa(xs[i]) /\ NotNa(xs[i - 1]) /\ Num(xs[i - 1]) # 0
        THEN Cell(((Num(xs[i]) - Num(xs[i - 1])) * 100) \div Num(xs[i - 1]))
        ELSE NaN]

\* Series.rolling(window).std(): the sample deviation of a full window of
\* non-NaN values, NaN otherwise.
RollingStd(xs, window) ==
    [i \in 1..Len(xs) |->
        IF i >= window /\ \A j \in (i - window + 1)..i : NotNa(xs[j])
        THEN LET v == [j \in 1..Len(xs) |-> IF NotNa(xs[j]) THEN Num(xs[j]) ELSE 0]
                 s == SumOver(v, i - window + 1, i)
                 q == SumOver([j \in 1..Len(xs) |-> v[j] * v[j]], i - window + 1, i)
             IN Cell(IntSqrt((window * q - s * s) \div (window * (window - 1))))
        ELSE NaN]

Column(df, c) == [i \in 1..Len(df.rows) |-> df.rows[i][c]]

\* An assignment that also turns the frame upside down.
WithColumnReversed(df, c, values) ==
    [columns |-> IF c \in Range(df.columns) THEN df.columns ELSE Append(df.columns, c),
     rows |-> [i \in 1..Len(df.rows) |->
                 [k \in DOMAIN df.rows[i] \cup {c} |->
                    IF k = c THEN values[i] ELSE df.rows[Len(df.rows) + 1 - i][k]]]]

\* df[c] = values: a new column is appended, an existing one is replaced.
WithColumn(df, c, values) ==
    [columns |-> IF c \in Range(df.columns) THEN df.columns ELSE Append(df.columns, c),
     rows |-> [i \in 1..Len(df.rows) |->
                 [k \in DOMAIN df.rows[i] \cup {c} |->
                    IF k = c THEN values[i] ELSE df.rows[i][k]]]]

AddIf(df, cond, c, values) == IF cond THEN WithColumn(df, c, values) ELSE df

_add_basic_indicators(df) ==
    LET n == Len(df.rows)
        close == Column(df, "close")
        d1 == AddIf(df, n >= SMA_SHORT, "sma_20", RollingMean(close, SMA_SHORT))
        d2 == AddIf(d1, n >= SMA_MID, "sma_50", RollingMean(close, SMA_MID))
        d3 == AddIf(d2, n >= SMA_LONG, "sma_200", RollingMean(close, SMA_LONG))
        d4 == WithColumn(d3, "daily_return", PctChange(close))
        d5 == AddIf(d4, n >= VOL_WINDOW, "volatility_10d",
                    RollingStd(Column(d4, "daily_return"), VOL_WINDOW))
        d6 == WithColumn(d5, "volume_change", PctChange(Column(df, "volume")))
        d7 == AddIf(d6, "sma_50" \in Range(d6.columns), "rs_50",
                    [i \in 1..n |->
                        IF NotNa(Column(d6, "sma_50")[i]) /\ Num(Column(d6, "sma_50")[i]) # 0
                        THEN Cell((Num(close[i]) * 100) \div Num(Column(d6, "sma_50")[i]))
                        ELSE NaN])
    IN d7

\* ------------------------------------------------------- crawler (pure part)
\* The names bound at module level in stock_crawler.py.  numpy is not
\* imported, and "import yfinance as yf" is local to two methods.
ModuleGlobals ==
    {"requests", "pd", "time", "datetime", "timedelta", "os", "logging",
     "List", "Dict", "Any", "Optional", "logger", "has_yfinance", "StockCrawler"}

NameBound(name) == name \in ModuleGlobals

\* What a provider answers (the environment's choice).
YahooResponses(lens) ==
    {[kind |-> "rows", n |-> n, ver |-> v] : n \in lens \ {0}, v \in Versions}
    \cup {[kind |-> "empty", n |-> 0, ver |-> 1], [kind |-> "error", n |-> 0, ver |-> 1]}

AlphaResponses ==
    {[kind |-> k, n |-> 0] :
        k \in {"error_message", "rate_limited", "information", "no_series",
               "empty_series", "network_error"}}
    \cup {[kind |-> "rows", n |-> 2]}

\* A generator's run: whether it raised and how many rows it returned.
MockRun(gen, raised, nrows) == [gen |-> gen, raised |-> raised, nrows |-> nrows]

\* _get_mock_data: 100 rows, no name that is unbound.
_get_mock_data(symbol, interval) == MockRun("_get_mock_data", FALSE, MOCK_POINTS)

\* _get_mock_daily_data: 365 rows.
_get_mock_daily_data(symbol) == MockRun("_get_mock_daily_data", FALSE, MOCK_DAILY_POINTS)

MockHistoricalPoints(timeframe, period) ==
    IF timeframe = "1h" THEN 24 * 30
    ELSE IF timeframe = "1d" THEN
        (IF period = "1mo" THEN 30
         ELSE IF period = "3mo" THEN 90
         ELSE IF period = "6mo" THEN 180
         ELSE IF period = "1y" THEN 365
         ELSE IF period = "5y" THEN 365 * 5
         ELSE MOCK_POINTS)
    ELSE IF timeframe = "1wk" THEN 52 * 5
    ELSE IF timeframe = "1mo" THEN 12 * 10
    ELSE MOCK_POINTS

\* _get_mock_historical_data: the first pass of the loop evaluates np.sin,
\* and np is no name of the module: NameError, unless there is no pass.
_get_mock_historical_data(symbol, timeframe, period) ==
    LET points == MockHistoricalPoints(timeframe, period) IN
    IF points > 0 /\ ~NameBound("np")
    THEN MockRun("_get_mock_historical_data", TRUE, 0)
    ELSE MockRun("_get_mock_historical_data", FALSE, points)

\* The result of one fetch: outcome is "series", "empty" or "raised"; source
\* is the adapter the returned series came from; attempts lists the adapters
\* whose provider was called or whose generator ran; df is the series when a
\* provider supplied it (a generator's frame is not materialised).
Fetched(outcome, nrows, source, attempts, mock_calls, df) ==
    [outcome |-> outcome, nrows |-> nrows, source |-> source, attempts |-> attempts,
     mock_calls |-> mock_calls, df |-> df]

FromMock(m, attempts, calls) ==
    IF m.raised
    THEN Fetched("raised", 0, "none", attempts, calls, EmptyFrame)
    ELSE Fetched("series", m.nrows, "mock", attempts, calls, EmptyFrame)

_get_yahoo_data(hasYf, yh, symbol, interval) ==
    IF ~hasYf
    THEN FromMock(_get_mock_data(symbol, interval), <<"mock">>,
                  <<_get_mock_data(symbol, interval)>>)
    ELSE IF yh.kind = "rows"
    THEN Fetched("series", yh.n, "yahoo", <<"yahoo">>, <<>>, EmptyFrame)
    ELSE IF yh.kind = "empty"
    THEN Fetched("empty", 0, "none", <<"yahoo">>, <<>>, EmptyFrame)
    ELSE FromMock(_get_mock_data(symbol, interval), <<"yahoo", "mock">>,
                  <<_get_mock_data(symbol, interval)>>)

\* Every failure of the Alpha Vantage call ends in an empty DataFrame.
_get_alphavantage_data(av, symbol, interval) ==
    IF av.kind = "rows"
    THEN Fetched("series", av.n, "alphavantage", <<"alphavantage">>, <<>>, EmptyFrame)
    ELSE Fetched("empty", 0, "none", <<"alphavantage">>, <<>>, EmptyFrame)

get_intraday_data(ds, hasYf, yh, av, symbol, interval) ==
    IF ds = "yahoo" THEN _get_yahoo_data(hasYf, yh, symbol, interval)
    ELSE IF ds = "alphavantage" THEN _get_alphavantage_data(av, symbol, interval)
    ELSE FromMock(_get_mock_data(symbol, interval), <<"mock">>,
                  <<_get_mock_data(symbol, interval)>>)

\* The yahoo branch names yf, which is unbound here: the NameError is caught
\* by the branch's own except and an empty DataFrame is returned.
get_daily_data(ds, hasYf, yh, av, symbol) ==
    IF ds = "yahoo" THEN
        (IF ~NameBound("yf")
         THEN Fetched("empty", 0, "none", <<"yahoo">>, <<>>, EmptyFrame)
         ELSE IF yh.kind = "rows"
         THEN Fetched("series", yh.n, "yahoo", <<"yahoo">>, <<>>, EmptyFrame)
         ELSE Fetched("empty", 0, "none", <<"yahoo">>, <<>>, EmptyFrame))
    ELSE IF ds = "alphavantage" THEN
        (IF av.kind = "rows"
         THEN Fetched("series", av.n, "alphavantage", <<"alphavantage">>, <<>>, EmptyFrame)
         ELSE Fetched("empty", 0, "none", <<"alphavantage">>, <<>>, EmptyFrame))
    ELSE FromMock(_get_mock_daily_data(symbol), <<"mock">>, <<_get_mock_daily_data(symbol)>>)

\* A get_historical_data that turns to the generator when the provider
\* returns no rows.
GetHistoricalMockOnEmpty(ds, hasYf, yh, symbol, timeframe, period) ==
    LET m == _get_mock_historical_data(symbol, timeframe, period) IN
    IF ds = "yahoo" /\ hasYf /\ yh.kind = "rows"
    THEN Fetched("series", yh.n, "yahoo", <<"yahoo">>, <<>>,
                 _add_basic_indicators(YahooFrame(symbol, timeframe, yh.n, yh.ver)))
    ELSE FromMock(m, <<"yahoo", "mock">>, <<m>>)

get_historical_data(ds, hasYf, yh, symbol, timeframe, period) ==
    LET m == _get_mock_historical_data(symbol, timeframe, period) IN
    IF ds = "yahoo" THEN
        (IF ~hasYf THEN
            \* the generator is called inside the try: what it raises is caught
            \* by the except, which calls the generator again
            (IF m.raised THEN FromMock(m, <<"mock", "mock">>, <<m, m>>)
             ELSE FromMock(m, <<"mock">>, <<m>>))
         ELSE IF yh.kind = "rows" THEN
            Fetched("series", yh.n, "yahoo", <<"yahoo">>, <<>>,
                    _add_basic_indicators(YahooFrame(symbol, timeframe, yh.n, yh.ver)))
         ELSE IF yh.kind = "empty" THEN
            Fetched("empty", 0, "none", <<"yahoo">>, <<>>, EmptyFrame)
         ELSE FromMock(m, <<"yahoo", "mock">>, <<m>>))
    ELSE FromMock(m, <<"mock">>, <<m>>)

\* A probe that imports the library at every construction.
CheckYfinanceEveryTime(ds, hasYf, importable) ==
    IF importable
    THEN [has |-> TRUE, ds |-> ds, ran |-> TRUE, failed |-> FALSE]
    ELSE [has |-> FALSE, ds |-> "mock", ran |-> TRUE, failed |-> TRUE]

\* The probe without the downgrade of the instance.
CheckYfinanceNoDowngrade(ds, hasYf, importable) ==
    IF ~hasYf
    THEN [has |-> importable, ds |-> ds, ran |-> TRUE, failed |-> ~importable]
    ELSE [has |-> hasYf, ds |-> ds, ran |-> FALSE, failed |-> FALSE]

\* __init__'s probe.  importable is whether "import yfinance" succeeds now.
\* ran: the import was attempted; failed: it raised ImportError.
_check_yfinance_available(ds, hasYf, importable) ==
    IF ~hasYf
    THEN IF importable
         THEN [has |-> TRUE, ds |-> ds, ran |-> TRUE, failed |-> FALSE]
         ELSE [has |-> FALSE, ds |-> "mock", ran |-> TRUE, failed |-> TRUE]
    ELSE [has |-> hasYf, ds |-> ds, ran |-> FALSE, failed |-> FALSE]

\* __init__: the data source after the missing-key fallback and the probe.
StockCrawlerInit(key, ds, hasYf, importable) ==
    LET ds1 == IF ds = "alphavantage" /\ ~key THEN "yahoo" ELSE ds IN
    IF ds1 = "yahoo"
    THEN _check_yfinance_available(ds1, hasYf, importable)
    ELSE [has |-> hasYf, ds |-> ds1, ran |-> FALSE, failed |-> FALSE]

\* ------------------------------------------------------------ CSV staging
IndexOf(seq, x) == CHOOSE i \in 1..Len(seq) : seq[i] = x

\* DataFrame.to_csv(index=False): a header line and one line per row, the
\* fields by position; NaN is written as the empty field.
to_csv(df) ==
    [header |-> df.columns,
     lines |-> [i \in 1..Len(df.rows) |->
                  [j \in 1..Len(df.columns) |-> df.rows[i][df.columns[j]]]]]

\* pd.read_csv: the columns are those of the header; an empty field is NaN.
read_csv(csv) ==
    [columns |-> csv.header,
     rows |-> [i \in 1..Len(csv.lines) |->
                 [c \in Range(csv.header) |-> csv.lines[i][IndexOf(csv.header, c)]]]]

\* ------------------------------------------------------------------ upsert
\* The statement built without the timeframe column.
InsertStatementNoTimeframe(df) ==
    LET columns == SelectCols(df.columns, Range(V2Cols) \ {"timeframe"}) IN
    [columns |-> columns,
     tuples |-> [i \in 1..Len(df.rows) |->
                   [c \in Range(columns) |->
                      IF c \in DOMAIN df.rows[i] /\ NotNa(df.rows[i][c])
                      THEN df.rows[i][c] ELSE NaN]]]

\* The statement insert_to_postgres builds from a frame: the frame's columns
\* that the table has, one tuple per row, None for a missing or NaN value.
InsertStatement(df) ==
    LET columns == SelectCols(df.columns, Range(V2Cols)) IN
    [columns |-> columns,
     tuples |-> [i \in 1..Len(df.rows) |->
                   [c \in Range(columns) |->
                      IF c \in DOMAIN df.rows[i] /\ NotNa(df.rows[i][c])
                      THEN df.rows[i][c] ELSE NaN]]]

NoStatement == [columns |-> <<>>, tuples |-> <<>>]

\* A stored row and a proposed tuple conflict on the unique constraint when
\* every key column is equal; a NULL key never conflicts.
\* The proposed tuple can conflict at all: the statement names every key
\* column and the tuple has a value in each (a NULL key never conflicts).
HasKey(t, columns, keys) ==
    \A i \in 1..Len(keys) :
        /\ \E j \in 1..Len(columns) : columns[j] = keys[i]
        /\ NotNa(t[keys[i]])

\* The stored row and the tuple are equal in every key column.
SameKey(row, t, keys) == \A i \in 1..Len(keys) : row[keys[i]] = t[keys[i]]

Conflicts(row, t, columns, keys) == HasKey(t, columns, keys) /\ SameKey(row, t, keys)

\* A plain INSERT: the tuple is appended whatever the table holds.
InsertRowNoConflict(table, t, columns, keys, allCols) ==
    Append(table, [c \in Range(allCols) |-> IF c \in Range(columns) THEN t[c] ELSE NaN])

\* ON CONFLICT (keys) DO UPDATE SET c = EXCLUDED.c for the non-key columns the
\* statement names; without a conflict the tuple is inserted, the columns the
\* statement does not name being NULL.
UpsertRow(table, t, columns, keys, allCols) ==
    LET hit == IF HasKey(t, columns, keys)
               THEN {j \in 1..Len(table) : SameKey(table[j], t, keys)}
               ELSE {}
        named == Range(columns)
        set == named \ Range(keys)
    IN
    IF hit # {}
    THEN LET j == CHOOSE j \in hit : TRUE IN
         [table EXCEPT ![j] = [c \in Range(allCols) |-> IF c \in set THEN t[c] ELSE @[c]]]
    ELSE Append(table, [c \in Range(allCols) |-> IF c \in named THEN t[c] ELSE NaN])

RECURSIVE UpsertFrom(_, _, _, _, _, _)
UpsertFrom(table, tuples, i, columns, keys, allCols) ==
    IF i > Len(tuples) THEN table
    ELSE LET next == UpsertRow(table, tuples[i], columns, keys, allCols) IN
         \* (an upsert never shortens the table; the test makes the
         \* evaluation of next strict)
         IF Len(next) >= Len(table)
         THEN UpsertFrom(next, tuples, i + 1, columns, keys, allCols)
         ELSE next

\* execute_values / execute_batch of an upsert statement over all tuples.
Upsert(table, stmt, keys, allCols) ==
    UpsertFrom(table, stmt.tuples, 1, stmt.columns, keys, allCols)

\* One INSERT .. ON CONFLICT DO UPDATE may not touch a row twice: two tuples
\* of one page with the same key make the statement fail.
StatementRaises(stmt, keys) ==
    \E i, j \in 1..Len(stmt.tuples) :
        /\ i < j
        /\ (i - 1) \div PAGE_SIZE = (j - 1) \div PAGE_SIZE
        /\ Conflicts(stmt.tuples[i], stmt.tuples[j], stmt.columns, keys)

UniqueKeys(table, keys) ==
    \A i, j \in 1..Len(table) :
        i < j => \E k \in Range(keys) : table[i][k] # table[j][k]

\* SELECT COUNT(*) FROM stock_data_v2 WHERE symbol = s AND timeframe = tf
CountRows(table, s, tf) ==
    Len(SelectSeq(table, LAMBDA r : r["symbol"] = Cell(s) /\ r["timeframe"] = Cell(tf)))

\* SELECT ... WHERE symbol = s
RowsOf(table, s) == SelectSeq(table, LAMBDA r : r["symbol"] = Cell(s))

\* --------------------------------------------------------------- pipeline
\* TIMEFRAMES.get(timeframe_key, TIMEFRAMES['daily'])
TIMEFRAMES(timeframe_key) ==
    IF timeframe_key = "hourly" THEN [timeframe |-> "1h", period |-> "60d"]
    ELSE IF timeframe_key = "weekly" THEN [timeframe |-> "1wk", period |-> "5y"]
    ELSE IF timeframe_key = "monthly" THEN [timeframe |-> "1mo", period |-> "10y"]
    ELSE [timeframe |-> "1d", period |-> "1y"]

\* The work units of the model: one symbol each, the daily timeframe.
Units == {"X", "Y"}

TimeframeKey(u) == "daily"

\* f'{symbol}/{timeframe_key}/{execution_date}.csv': the path's parts, the
\* last one split into name and extension.
ObjectKey(symbol, timeframe_key, execution_date) ==
    <<symbol, timeframe_key, execution_date, "csv">>

\* A path that names the first run's object whatever the run.
FilePathFirstRun(bucket_name, object_key) ==
    <<"s3://", bucket_name, "/">> \o [object_key EXCEPT ![3] = 1]

\* f's3://{bucket_name}/{object_key}'
FilePath(bucket_name, object_key) == <<"s3://", bucket_name, "/">> \o object_key

\* file_path.replace(f's3://{bucket_name}/', ''): every occurrence of the
\* prefix is removed from the path.
RECURSIVE RemovePrefix(_, _)
RemovePrefix(path, prefix) ==
    IF Len(path) < Len(prefix) THEN path
    ELSE IF SubSeq(path, 1, Len(prefix)) = prefix
    THEN RemovePrefix(SubSeq(path, Len(prefix) + 1, Len(path)), prefix)
    ELSE <<Head(path)>> \o RemovePrefix(Tail(path), prefix)

\* The object key insert_to_postgres derives from a crawl result's path.
ResolveKey(file_path) == RemovePrefix(file_path, <<"s3://", "stock-data", "/">>)

None == [symbol |-> "", timeframe |-> "", file_path |-> <<>>, row_count |-> 0,
         execution_date |-> 0]

NoTx == [open |-> FALSE, stmt |-> NoStatement, offer |-> <<>>]

\* A rollback that drops every task's uncommitted work (one shared connection).
RollbackAll(txs, u) == [w \in DOMAIN txs |-> NoTx]

\* conn.rollback(): the connection's own uncommitted work is dropped.
Rollback(txs, u) == [txs EXCEPT ![u] = NoTx]

\* conn.commit(): the transaction's statement takes effect on the table.
Commit(table, t) == Upsert(table, t.stmt, KeyCols, V2Cols)

\* ------------------------------------------------------------------- state
VARIABLES
    has_yfinance,   \* the module-level flag of stock_crawler.py
    data_source,    \* per crawler instance: self.data_source ("unborn" before __init__)
    probes,         \* per instance: how often it ran the import probe
    probe_failed,   \* per instance: its probe raised ImportError
    last_call,      \* per instance: its latest fetch and what came of it
    run,            \* per unit: the DAG run (execution_date) in progress
    crawl_state,    \* per unit: state of task crawl_<symbol>_<timeframe_key>
    crawl_result,   \* per unit: the crawl task's return value (XCom)
    offered,        \* per unit: what the provider answered to the staged crawl
    insert_state,   \* per unit: state of task insert_to_db_<symbol>_<timeframe_key>
    raised,         \* per unit: what raised in this run's tasks ("none" if nothing)
    upserted,       \* per unit: the latest committed upsert
    tx,             \* per unit: the insert task's open transaction
    bucket,         \* the stock-data bucket exists
    minio,          \* the bucket's objects: key -> CSV body
    stock_data_v2,  \* the versioned table (committed rows)
    stock_data,     \* the legacy table (committed rows)
    files,          \* bulk transfer: the bucket's listing
    file_i,         \* bulk transfer: the loop index i of enumerate(files)
    bulk_pc,        \* bulk transfer: "idle", "loop" or "done"
    work,           \* bulk transfer: the statements of its open transaction
    ok_files,       \* bulk transfer: the indexes whose rows were written without error
    history         \* the calls made to the other operations, each with its outcome

crawlerVars == <<has_yfinance, data_source, probes, probe_failed, last_call>>

pipeVars ==
    <<run, crawl_state, crawl_result, offered, insert_state, raised, upserted, tx,
      bucket, minio>>

dbVars == <<stock_data_v2, stock_data>>

bulkVars == <<files, file_i, bulk_pc, work, ok_files>>

vars == <<crawlerVars, pipeVars, dbVars, bulkVars, history>>

Crawlers == 1..MaxCrawlers

DataSources == {"yahoo", "alphavantage", "mock"}

NoCall ==
    [method |-> "none", outcome |-> "none", nrows |-> 0, source |-> "none",
     attempts |-> <<>>, mock_calls |-> <<>>, chain_fails |-> FALSE, lib |-> FALSE]

CallRecord(method, r, yh, av) ==
    [method |-> method, outcome |-> r.outcome, nrows |-> r.nrows, source |-> r.source,
     attempts |-> r.attempts, mock_calls |-> r.mock_calls,
     \* the primary provider throttles and the secondary one is unreachable
     chain_fails |-> (av.kind = "rate_limited" /\ yh.kind = "error"),
     \* the flag's value when the call was made
     lib |-> has_yfinance]

CrawlerInit ==
    /\ has_yfinance = FALSE
    /\ data_source = [c \in Crawlers |-> "unborn"]
    /\ probes = [c \in Crawlers |-> 0]
    /\ probe_failed = [c \in Crawlers |-> FALSE]
    /\ last_call = [c \in Crawlers |-> NoCall]

NoUpsert == [n |-> 0, offer |-> <<>>, stmt |-> NoStatement, same |-> FALSE]

PipeInit ==
    /\ run = [u \in Units |-> 1]
    /\ crawl_state = [u \in Units |-> "scheduled"]
    /\ crawl_result = [u \in Units |-> None]
    /\ offered = [u \in Units |-> <<>>]
    /\ insert_state = [u \in Units |-> "waiting"]
    /\ raised = [u \in Units |-> "none"]
    /\ upserted = [u \in Units |-> NoUpsert]
    /\ tx = [u \in Units |-> NoTx]
    /\ stock_data_v2 = <<>>
    /\ stock_data = <<>>

BulkIdle ==
    /\ files = <<>>
    /\ file_i = 0
    /\ bulk_pc = "idle"
    /\ work = <<>>
    /\ ok_files = {}

Init ==
    CrawlerInit /\ PipeInit /\ bucket = FALSE /\ minio = <<>> /\ BulkIdle /\ history = <<>>

\* StockCrawler(api_key, data_source)
Construct(c) ==
    /\ data_source[c] = "unborn"
    /\ \E key \in BOOLEAN, ds \in DataSources, importable \in BOOLEAN :
        LET r == StockCrawlerInit(key, ds, has_yfinance, importable) IN
        /\ has_yfinance' = r.has
        /\ data_source' = [data_source EXCEPT ![c] = r.ds]
        /\ probes' = [probes EXCEPT ![c] = @ + (IF r.ran THEN 1 ELSE 0)]
        /\ probe_failed' = [probe_failed EXCEPT ![c] = r.failed]
    /\ UNCHANGED <<last_call, pipeVars, dbVars, bulkVars, history>>

CrawlerYahoo == {r \in YahooResponses({2}) : r.ver = 1}

CrawlerAlpha == {r \in AlphaResponses : r.kind \in {"rows", "rate_limited", "network_error"}}

Fetch(c, method, r, yh, av) ==
    /\ last_call' = [last_call EXCEPT ![c] = CallRecord(method, r, yh, av)]
    /\ UNCHANGED <<has_yfinance, data_source, probes, probe_failed, pipeVars, dbVars,
                   bulkVars, history>>

GetIntraday(c) ==
    /\ data_source[c] # "unborn"
    /\ \E yh \in CrawlerYahoo, av \in CrawlerAlpha :
        Fetch(c, "get_intraday_data",
              get_intraday_data(data_source[c], has_yfinance, yh, av, "X", "60min"), yh, av)

GetDaily(c) ==
    /\ data_source[c] # "unborn"
    /\ \E yh \in CrawlerYahoo, av \in CrawlerAlpha :
        Fetch(c, "get_daily_data",
              get_daily_data(data_source[c], has_yfinance, yh, av, "X"), yh, av)

GetHistorical(c) ==
    /\ data_source[c] # "unborn"
    /\ \E yh \in CrawlerYahoo, av \in CrawlerAlpha, tf \in {"1h", "1d"} :
        Fetch(c, "get_historical_data",
              [get_historical_data(data_source[c], has_yfinance, yh, "X", tf, "1y")
                 EXCEPT !.df = EmptyFrame], yh, av)

CrawlerNext ==
    \E c \in Crawlers :
        \/ Construct(c)
        \/ GetIntraday(c)
        \/ GetDaily(c)
        \/ GetHistorical(c)

\* One process: crawler instances are built and used in any order.
SpecCrawler == Init /\ [][CrawlerNext]_vars

\* ------------------------------------------------------- pipeline actions
\* The tasks the DAG file creates: a crawl task and an insert task for each
\* work unit.
Tasks == {<<kind, u>> : kind \in {"crawl", "insert_to_db"}, u \in Units}

\* A DAG without the crawl_task >> db_task edges.
UpstreamNone(task) == {}

\* crawl_task >> db_task: the tasks a task waits for.
Upstream(task) == IF task[1] = "insert_to_db" THEN {<<"crawl", task[2]>>} ELSE {}

TaskState(task) == IF task[1] = "crawl" THEN crawl_state[task[2]] ELSE insert_state[task[2]]

\* The scheduler's trigger rule (all_success): every upstream task succeeded.
UpstreamDone(task) == \A t \in Upstream(task) : TaskState(t) = "success"

Put(store, key, body) == [k \in DOMAIN store \cup {key} |-> IF k = key THEN body ELSE store[k]]

\* A crawl that stages whatever it fetched, an empty series too.
NoDataNever(r) == FALSE

\* if df.empty: return None
NoData(r) == r.outcome = "empty"

\* crawl_stock_data(symbol, timeframe_key, execution_date): the whole task.
\* The task's process starts with has_yfinance = False; importable, yh and
\* stage are the environment: the probe, the provider, the blob store.
Crawl(u, responses) ==
    /\ crawl_state[u] = "scheduled"
    /\ UpstreamDone(<<"crawl", u>>)
    /\ \E importable \in BOOLEAN, yh \in responses,
          stage \in {"ok", "connect_error", "put_error"} :
        LET cfg == TIMEFRAMES(TimeframeKey(u))
            crawler == StockCrawlerInit(FALSE, "yahoo", FALSE, importable)
            r == get_historical_data(crawler.ds, crawler.has, yh, u,
                                     cfg.timeframe, cfg.period)
            object_key == ObjectKey(u, TimeframeKey(u), run[u])
        IN
        IF r.outcome = "raised" \/ (~NoData(r) /\ stage # "ok")
        THEN \* the except clause logs and re-raises: the task fails
             /\ crawl_state' = [crawl_state EXCEPT ![u] = "failed"]
             /\ insert_state' = [insert_state EXCEPT ![u] = "upstream_failed"]
             /\ raised' = [raised EXCEPT ![u] =
                    IF r.outcome = "raised" THEN "fetch" ELSE "staging"]
             /\ bucket' = (bucket \/ (r.outcome # "raised" /\ stage = "put_error"))
             /\ UNCHANGED <<crawl_result, offered, minio>>
        ELSE IF NoData(r)
        THEN \* df.empty: return None before any blob-store call
             /\ crawl_state' = [crawl_state EXCEPT ![u] = "success"]
             /\ UNCHANGED <<crawl_result, offered, insert_state, raised, bucket, minio>>
        ELSE /\ crawl_state' = [crawl_state EXCEPT ![u] = "success"]
             /\ bucket' = TRUE
             /\ minio' = Put(minio, object_key, to_csv(r.df))
             /\ offered' = [offered EXCEPT ![u] = yh]
             /\ crawl_result' = [crawl_result EXCEPT ![u] =
                    [symbol |-> u, timeframe |-> TimeframeKey(u),
                     file_path |-> FilePath("stock-data", object_key),
                     row_count |-> Len(r.df.rows), execution_date |-> run[u]]]
             /\ UNCHANGED <<insert_state, raised>>
    /\ UNCHANGED <<run, upserted, tx, crawlerVars, dbVars, bulkVars, history>>

\* The statement the insert task builds from the blob its crawl result names.
TaskStatement(u) ==
    InsertStatement(read_csv(minio[ResolveKey(crawl_result[u].file_path)]))

\* insert_to_postgres up to execute_values: the XCom is pulled, the blob read,
\* the connection opened and the statement run inside the transaction.
InsertStart(u) ==
    /\ UpstreamDone(<<"insert_to_db", u>>)
    /\ insert_state[u] = "waiting"
    /\ IF crawl_result[u] = None
       THEN \* "No crawl result found": return
            /\ insert_state' = [insert_state EXCEPT ![u] = "success"]
            /\ UNCHANGED <<tx, raised>>
       ELSE \E fault \in {"none", "minio", "postgres"} :
            IF fault # "none"
            THEN \* get_object or connect raised: the outer except re-raises
                 /\ insert_state' = [insert_state EXCEPT ![u] = "failed"]
                 /\ raised' = [raised EXCEPT ![u] = fault]
                 /\ UNCHANGED tx
            ELSE /\ insert_state' = [insert_state EXCEPT ![u] = "running"]
                 /\ tx' = [tx EXCEPT ![u] =
                        [open |-> TRUE, stmt |-> TaskStatement(u), offer |-> offered[u]]]
                 /\ UNCHANGED raised
    /\ UNCHANGED <<run, crawl_state, crawl_result, offered, upserted,
                   bucket, minio, crawlerVars, dbVars, bulkVars, history>>

\* conn.commit() succeeds; the task logs the row count, closes and returns.
InsertCommit(u) ==
    /\ insert_state[u] = "running"
    /\ ~StatementRaises(TaskStatement(u), KeyCols)
    /\ stock_data_v2' = Commit(stock_data_v2, tx[u])
    /\ tx' = [tx EXCEPT ![u] = NoTx]
    /\ upserted' = [upserted EXCEPT ![u] =
            [n |-> @.n + 1, offer |-> offered[u], stmt |-> TaskStatement(u),
             same |-> (@.n > 0 /\ @.offer = offered[u])]]
    /\ insert_state' = [insert_state EXCEPT ![u] = "success"]
    /\ UNCHANGED <<run, crawl_state, crawl_result, offered, raised, bucket, minio,
                   crawlerVars, stock_data, bulkVars, history>>

\* execute_values or conn.commit() raises: the inner except logs the error and
\* calls conn.rollback(); the function then closes the connection and returns.
InsertError(u) ==
    /\ insert_state[u] = "running"
    /\ tx' = Rollback(tx, u)
    /\ raised' = [raised EXCEPT ![u] = "upsert"]
    /\ insert_state' = [insert_state EXCEPT ![u] = "success"]
    /\ UNCHANGED <<run, crawl_state, crawl_result, offered, upserted, bucket, minio,
                   crawlerVars, dbVars, bulkVars, history>>

\* The scheduler starts the unit's next DAG run once both tasks have ended.
NextRun(u) ==
    /\ run[u] < MaxRuns
    /\ insert_state[u] \in {"success", "failed", "upstream_failed"}
    /\ run' = [run EXCEPT ![u] = @ + 1]
    /\ crawl_state' = [crawl_state EXCEPT ![u] = "scheduled"]
    /\ crawl_result' = [crawl_result EXCEPT ![u] = None]
    /\ insert_state' = [insert_state EXCEPT ![u] = "waiting"]
    /\ raised' = [raised EXCEPT ![u] = "none"]
    /\ UNCHANGED <<offered, upserted, tx, bucket, minio, crawlerVars, dbVars, bulkVars,
                   history>>

PipeStep(u, responses) ==
    \/ Crawl(u, responses)
    \/ InsertStart(u)
    \/ InsertCommit(u)
    \/ InsertError(u)
    \/ NextRun(u)

\* Series lengths around the indicator windows.
RerunLens == {1, 2, VOL_WINDOW + 1, MaxLen}

RerunNext == PipeStep("X", YahooResponses(RerunLens))

\* One unit, run after run, the provider offering series of several lengths.
SpecRerun == Init /\ [][RerunNext]_vars

PipelineNext == \E u \in Units : PipeStep(u, YahooResponses({2}))

\* Two units whose tasks interleave.
SpecPipeline == Init /\ [][PipelineNext]_vars

\* ----------------------------------------------------------- bulk transfer
\* The rank of a key in the bucket's listing order (keys sort as strings).
KeyRank(key) ==
    LET sym == IF key[1] = "X" THEN 0 ELSE 1
        tf == IF key[2] = "daily" THEN 0 ELSE 1
        ext == IF key[4] = "csv" THEN 0 ELSE 1
    IN ((sym * 2 + tf) * (MaxRuns + 2) + key[3]) * 2 + ext

\* list_minio_files: the 'Contents' of list_objects_v2, in key order.
list_minio_files(store) ==
    LET n == Cardinality(DOMAIN store)
        keys == CHOOSE s \in [1..n -> DOMAIN store] :
                    \A i, j \in 1..n : i < j => KeyRank(s[i]) < KeyRank(s[j])
    IN [i \in 1..n |-> [Key |-> keys[i]]]

\* key.endswith('.csv')
endswith_csv(key) == key[4] = "csv"

\* key.split('/'): symbol, timeframe and the file's name with its extension.
split(key) == <<key[1], key[2], <<key[3], key[4]>>>>

\* float(row[c]) if c in row and pd.notna(row[c]) else None
FloatOrNone(row, c) == IF c \in DOMAIN row /\ NotNa(row[c]) THEN row[c] ELSE NaN

\* row['timestamp'] raises KeyError on a frame without that column.
TuplesRaise(df) == "timestamp" \notin Range(df.columns)

\* The frame after the symbol column is made sure of.
WithSymbol(df, symbol) ==
    IF "symbol" \in Range(df.columns) THEN df
    ELSE WithColumn(df, "symbol", [i \in 1..Len(df.rows) |-> Cell(symbol)])

\* data_tuples and the statement on the legacy table.
LegacyStatement(df) ==
    [columns |-> LegacyCols,
     tuples |-> [i \in 1..Len(df.rows) |->
                   [c \in Range(LegacyCols) |->
                      IF c \in Range(LegacyKeyCols) THEN df.rows[i][c]
                      ELSE FloatOrNone(df.rows[i], c)]]]

\* The versioned statement with one timeframe for every file.
V2StatementOneTimeframe(df, timeframe) ==
    [columns |-> KeyCols \o BaseCols,
     tuples |-> [i \in 1..Len(df.rows) |->
                   [c \in Range(KeyCols \o BaseCols) |->
                      IF c = "timeframe" THEN Cell("daily")
                      ELSE IF c \in Range(KeyCols) THEN df.rows[i][c]
                      ELSE FloatOrNone(df.rows[i], c)]]]

\* data_tuples_v2 and the statement on the versioned table: the timeframe is
\* the one parsed from the path.
V2Statement(df, timeframe) ==
    [columns |-> KeyCols \o BaseCols,
     tuples |-> [i \in 1..Len(df.rows) |->
                   [c \in Range(KeyCols \o BaseCols) |->
                      IF c = "timeframe" THEN Cell(timeframe)
                      ELSE IF c \in Range(KeyCols) THEN df.rows[i][c]
                      ELSE FloatOrNone(df.rows[i], c)]]]

\* The two statements the loop runs for the file at key.
FileStatements(store, key) ==
    LET parts == split(key)
        df == WithSymbol(read_csv(store[key]), parts[1])
    IN [legacy |-> LegacyStatement(df), v2 |-> V2Statement(df, parts[2])]

\* pg_conn.commit(): the pending statements take effect in the order they ran.
RECURSIVE CommitAll(_, _, _)
CommitAll(tables, pending, i) ==
    IF i > Len(pending) THEN tables
    ELSE LET next == [legacy |-> Upsert(tables.legacy, pending[i].legacy,
                                        LegacyKeyCols, LegacyCols),
                      v2 |-> Upsert(tables.v2, pending[i].v2, KeyCols, V2Cols)]
         IN IF Len(next.v2) >= Len(tables.v2) THEN CommitAll(next, pending, i + 1)
            ELSE next

\* A rollback that leaves the failed file's legacy statement pending, as if
\* the legacy write were not part of the transaction.
BulkRollbackKeepsLegacy(pending, failed) ==
    <<[legacy |-> failed.legacy, v2 |-> [columns |-> failed.v2.columns, tuples |-> <<>>]]>>

\* pg_conn.rollback() in the except clause: every statement run since the
\* last commit is dropped, those of the failed file included.
BulkRollback(pending, failed) == <<>>

\* load_and_insert_data up to the loop: the connections are opened, the
\* tables made sure of and the bucket listed.
BulkStart ==
    /\ bulk_pc = "idle"
    /\ files' = list_minio_files(minio)
    /\ file_i' = 0
    /\ bulk_pc' = "loop"
    /\ UNCHANGED <<work, ok_files, crawlerVars, pipeVars, dbVars, history>>

\* One pass of the loop over enumerate(files), the commit or rollback at its
\* end included.  fault is the environment: the blob read or a statement fails.
ProcessFile ==
    /\ bulk_pc = "loop"
    /\ file_i < Len(files)
    /\ file_i' = file_i + 1
    /\ LET key == files[file_i + 1].Key
           parts == split(key)
       IN \E fault \in {"none", "get_object", "execute_batch", "execute_batch_v2"} :
          IF ~endswith_csv(key) \/ Len(parts) < 2
          THEN \* continue
               UNCHANGED <<work, ok_files, dbVars>>
          ELSE IF fault = "get_object"
          THEN \* except: pg_conn.rollback()
               /\ work' = <<>>
               /\ UNCHANGED <<ok_files, dbVars>>
          ELSE IF IsEmpty(read_csv(minio[key]))
          THEN \* continue
               UNCHANGED <<work, ok_files, dbVars>>
          ELSE IF fault = "execute_batch" \/ TuplesRaise(read_csv(minio[key]))
          THEN \* except: pg_conn.rollback()
               /\ work' = <<>>
               /\ UNCHANGED <<ok_files, dbVars>>
          ELSE IF fault = "execute_batch_v2"
          THEN \* the legacy statement ran, the versioned one raised: rollback
               /\ work' = BulkRollback(work, FileStatements(minio, key))
               /\ UNCHANGED <<ok_files, dbVars>>
          ELSE LET w == Append(work, FileStatements(minio, key))
                   t == CommitAll([legacy |-> stock_data, v2 |-> stock_data_v2], w, 1)
               IN /\ ok_files' = ok_files \cup {file_i}
                  /\ IF file_i % COMMIT_EVERY = 0
                     THEN /\ stock_data' = t.legacy
                          /\ stock_data_v2' = t.v2
                          /\ work' = <<>>
                     ELSE /\ work' = w
                          /\ UNCHANGED dbVars
    /\ UNCHANGED <<files, bulk_pc, crawlerVars, pipeVars, history>>

\* The final commit after the loop; the counts are logged, the connection closed.
FinalCommit ==
    /\ bulk_pc = "loop"
    /\ file_i = Len(files)
    /\ LET t == CommitAll([legacy |-> stock_data, v2 |-> stock_data_v2], work, 1) IN
       /\ stock_data' = t.legacy
       /\ stock_data_v2' = t.v2
    /\ work' = <<>>
    /\ bulk_pc' = "done"
    /\ UNCHANGED <<files, file_i, ok_files, crawlerVars, pipeVars, history>>

BulkNext == BulkStart \/ ProcessFile \/ FinalCommit

\* The keys a bucket may hold when the transfer starts.
BulkKeys ==
    {ObjectKey(s, tf, 1) : s \in Units, tf \in {"daily", "weekly"}}
        \cup {<<"X", "daily", 1, "txt">>}

\* A staged blob of the unit the key names (data set ver), or a CSV with a
\* header and no line (ver = 0).
BulkBody(key, ver) ==
    to_csv(IF ver = 0 THEN [columns |-> KeyCols \o BaseCols, rows |-> <<>>]
           ELSE _add_basic_indicators(
                    YahooFrame(key[1], TIMEFRAMES(key[2]).timeframe, 2, ver)))

BulkInit ==
    /\ CrawlerInit
    /\ PipeInit
    /\ BulkIdle
    /\ history = <<>>
    /\ bucket = TRUE
    /\ \E D \in SUBSET BulkKeys :
          /\ Cardinality(D) \in 1..MaxFiles
          /\ \E ver \in [D -> {0} \cup Versions] :
                minio = [k \in D |-> BulkBody(k, ver[k])]

\* One run of the bulk transfer over a bucket of up to MaxFiles objects.
SpecBulk == BulkInit /\ [][BulkNext]_vars

\* ------------------------------------------------------ get_multiple_stocks
\* The longest symbols list of the model.
MaxSymbols == 7

\* if ... len(result) % 5 == 0
RATE_BURST == 5

IsFetch(e) == e.op = "get_intraday_data"

\* result: the symbols whose fetch returned a non-empty frame.
MultiResult(h) == {h[k].symbol : k \in {j \in 1..Len(h) : IsFetch(h[j]) /\ ~h[j].empty}}

\* The number of symbols the loop has fetched.
MultiFetches(h) == Cardinality({j \in 1..Len(h) : IsFetch(h[j])})

MultiRunning(h) == h # <<>> /\ h[1].op = "get_multiple_stocks" /\ h[Len(h)].op # "return"

\* The loop's rate-limiting condition.
MustSleep(ds, result) ==
    ds = "alphavantage" /\ Cardinality(result) > 0 /\ Cardinality(result) % RATE_BURST = 0

\* crawler.get_multiple_stocks(symbols): the call starts.
MultiStart ==
    /\ data_source[1] # "unborn"
    /\ history = <<>>
    /\ history' = <<[op |-> "get_multiple_stocks"]>>
    /\ UNCHANGED <<crawlerVars, pipeVars, dbVars, bulkVars>>

\* time.sleep(65) at the head of a pass of the loop.
MultiSleep ==
    /\ MultiRunning(history)
    /\ MultiFetches(history) < MaxSymbols
    /\ history[Len(history)].op # "sleep"
    /\ MustSleep(data_source[1], MultiResult(history))
    /\ history' = Append(history, [op |-> "sleep"])
    /\ UNCHANGED <<crawlerVars, pipeVars, dbVars, bulkVars>>

\* df = self.get_intraday_data(symbol, interval) and the update of result.
MultiFetch ==
    /\ MultiRunning(history)
    /\ MultiFetches(history) < MaxSymbols
    /\ MustSleep(data_source[1], MultiResult(history)) => history[Len(history)].op = "sleep"
    /\ \E yh \in CrawlerYahoo, av \in CrawlerAlpha :
        LET symbol == MultiFetches(history) + 1
            df == get_intraday_data(data_source[1], has_yfinance, yh, av, symbol, "60min")
        IN history' = Append(history, [op |-> "get_intraday_data", symbol |-> symbol,
                                       empty |-> (df.outcome = "empty")])
    /\ UNCHANGED <<crawlerVars, pipeVars, dbVars, bulkVars>>

\* The symbols list is exhausted: return result.
MultiReturn ==
    /\ MultiRunning(history)
    /\ history[Len(history)].op # "sleep"
    /\ history' = Append(history, [op |-> "return", result |-> MultiResult(history)])
    /\ UNCHANGED <<crawlerVars, pipeVars, dbVars, bulkVars>>

MultiNext == Construct(1) \/ MultiStart \/ MultiSleep \/ MultiFetch \/ MultiReturn

\* One crawler is constructed and fetches a list of symbols.
SpecMultiple == Init /\ [][MultiNext]_vars

\* -------------------------------------------------------- MinIOClient.insert
\* The interpreter's limit on nested calls (sys.getrecursionlimit()), scaled down.
RecursionLimit == 8

LastOp(h) == IF h = <<>> THEN "none" ELSE h[Len(h)].op

\* The number of activations of insert on the stack.
Depth(h) == Cardinality({k \in 1..Len(h) : h[k].op = "insert"})

\* s3.insert(bucket, key, data): the outermost call.
StageStart ==
    /\ history = <<>>
    /\ \E symbol \in Units :
        history' = <<[op |-> "insert", key |-> ObjectKey(symbol, "daily", 1), absent |-> ~bucket]>>
    /\ UNCHANGED <<crawlerVars, pipeVars, dbVars, bulkVars>>

\* check_bucket_exists: head_bucket answers, raises ClientError (caught, False)
\* or fails in another way (not caught: the exception leaves insert).
check_bucket_exists ==
    /\ LastOp(history) = "insert"
    /\ \E reachable \in BOOLEAN :
        history' = Append(history,
            IF reachable THEN [op |-> "check_bucket_exists", exists |-> bucket]
            ELSE [op |-> "raise", error |-> "EndpointConnectionError"])
    /\ UNCHANGED <<crawlerVars, pipeVars, dbVars, bulkVars>>

\* The bucket exists: upload_fileobj; a ClientError is logged; return.
StageUpload ==
    /\ LastOp(history) = "check_bucket_exists"
    /\ history[Len(history)].exists
    /\ \E ok \in BOOLEAN :
        /\ minio' = IF ok THEN Put(minio, history[1].key, <<"data">>) ELSE minio
        /\ history' = Append(history, [op |-> "return", uploaded |-> ok])
    /\ UNCHANGED <<crawlerVars, crawl_state, crawl_result, offered, insert_state, raised,
                   upserted, tx, run, bucket, dbVars, bulkVars>>

\* The bucket does not exist: create_bucket, whose every exception is swallowed.
create_bucket ==
    /\ LastOp(history) = "check_bucket_exists"
    /\ ~history[Len(history)].exists
    /\ \E ok \in BOOLEAN :
        /\ bucket' = (bucket \/ ok)
        /\ history' = Append(history, [op |-> "create_bucket", ok |-> ok])
    /\ UNCHANGED <<crawlerVars, crawl_state, crawl_result, offered, insert_state, raised,
                   upserted, tx, run, minio, dbVars, bulkVars>>

\* self.insert(bucket, key, data) from the else branch: one more activation,
\* or RecursionError when the interpreter's limit is reached.
StageRecurse ==
    /\ LastOp(history) = "create_bucket"
    /\ history' = Append(history,
            IF Depth(history) < RecursionLimit
            THEN [op |-> "insert", key |-> history[1].key, absent |-> ~bucket]
            ELSE [op |-> "raise", error |-> "RecursionError"])
    /\ UNCHANGED <<crawlerVars, pipeVars, dbVars, bulkVars>>

StageNext == StageStart \/ check_bucket_exists \/ StageUpload \/ create_bucket \/ StageRecurse

StageInit ==
    /\ CrawlerInit /\ PipeInit /\ BulkIdle
    /\ bucket \in BOOLEAN
    /\ minio = <<>>
    /\ history = <<>>

\* One stage call against a blob store whose bucket exists or not.
SpecStage == StageInit /\ [][StageNext]_vars

\* --------------------------------------------------------- synthetic series
\* Calls recorded in one behaviour.
MaxCalls == 2

\* Readings of the wall clock after the first one.
MaxTicks == 2

\* Interpreter processes; each salts its string hashes on its own.
NumProcesses == 2

\* datetime.now(), in minutes.
Clock == {6000 + 45 * k : k \in 0..MaxTicks}

\* Minutes between two points of _get_mock_data.
MockStep(interval) ==
    IF interval = "1min" THEN 1
    ELSE IF interval = "5min" THEN 5
    ELSE IF interval = "15min" THEN 15
    ELSE IF interval = "30min" THEN 30
    ELSE 60

\* hash(symbol) in a process: str hashes depend on the process's salt.
Hash(symbol, process) == (IF symbol = "X" THEN 11 ELSE 23) + 17 * process

\* The n-th random.uniform(lo, hi) after random.seed(seed).
Uniform(seed, n, lo, hi) == lo + ((7 * seed + 3 * n) % (hi - lo + 1))

BasePrice(symbol) ==
    IF symbol = "MSFT" THEN 300
    ELSE IF symbol = "GOOG" THEN 2500
    ELSE IF symbol = "AMZN" THEN 120
    ELSE IF symbol = "META" THEN 450
    ELSE IF symbol = "TSLA" THEN 200
    ELSE IF symbol = "AAPL" THEN 150
    ELSE 100

Max2(a, b) == IF a >= b THEN a ELSE b

Min2(a, b) == IF a <= b THEN a ELSE b

\* The frame _get_mock_data builds when the clock reads now: row i (from 0)
\* is at now - i * step.  Prices are in cents.
MockFrame(symbol, interval, now, process) ==
    [columns |-> <<"symbol", "timestamp">> \o BaseCols,
     rows |-> [k \in 1..MOCK_POINTS |->
        LET i == k - 1
            timestamp == now - i * MockStep(interval)
            seed == i + Hash(symbol, process)
            daily_cycle == (500 * ((timestamp \div 60) % 24)) \div 24
            close == 100 * BasePrice(symbol) + daily_cycle + Uniform(seed, 1, -200, 200)
            open_price == close - Uniform(seed, 2, -100, 100)
            high == Max2(open_price, close) + Uniform(seed, 3, 10, 100)
            low == Min2(open_price, close) - Uniform(seed, 4, 10, 100)
        IN [symbol |-> Cell(symbol), timestamp |-> Cell(timestamp),
            open |-> Cell(open_price), high |-> Cell(high), low |-> Cell(low),
            close |-> Cell(close), volume |-> Cell(Uniform(seed, 5, 1000000, 5000000))]]]

\* crawler.get_intraday_data(symbol, interval) on a crawler whose data source
\* is the synthetic one, called in some process at some time.
MockIntraday ==
    /\ data_source[1] = "mock"
    /\ Len(history) < MaxCalls
    /\ \E symbol \in Units, interval \in {"1min", "60min"}, now \in Clock,
          process \in 1..NumProcesses :
        LET r == get_intraday_data(data_source[1], has_yfinance, CHOOSE yh \in CrawlerYahoo : TRUE,
                                   CHOOSE av \in CrawlerAlpha : TRUE, symbol, interval)
        IN history' = Append(history,
                [op |-> "get_intraday_data", symbol |-> symbol, interval |-> interval,
                 now |-> now, process |-> process, source |-> r.source,
                 df |-> IF r.source = "mock" THEN MockFrame(symbol, interval, now, process)
                        ELSE EmptyFrame])
    /\ UNCHANGED <<crawlerVars, pipeVars, dbVars, bulkVars>>

MockNext == Construct(1) \/ MockIntraday

\* A crawler is constructed and asked for synthetic series.
SpecMock == Init /\ [][MockNext]_vars

\* --------------------------------------------------------------- enrichment
\* The longest series handed to the enrichment.
EnrichLen == 201

EnrichInit ==
    /\ CrawlerInit /\ PipeInit /\ BulkIdle
    /\ bucket = FALSE
    /\ minio = <<>>
    /\ \E n \in 0..EnrichLen, ver \in Versions :
        history = <<[op |-> "history", df |-> YahooFrame("X", "1d", n, ver)]>>

\* df = self._add_basic_indicators(df) on the frame ticker.history returned.
Enrich ==
    /\ Len(history) = 1
    /\ history[1].op = "history"
    /\ history' = Append(history, [op |-> "_add_basic_indicators",
                                    df |-> _add_basic_indicators(history[1].df)])
    /\ UNCHANGED <<crawlerVars, pipeVars, dbVars, bulkVars>>

\* Series of every length up to EnrichLen are enriched.
SpecEnrich == EnrichInit /\ [][Enrich]_vars

\* ------------------------------------------------------ get_historical_data
\* yf_timeframe_map.get(timeframe, timeframe)
yf_timeframe(timeframe) == timeframe

\* The period handed to ticker.history: for the hourly interval the periods
\* of the list are replaced by "60d".
yf_period(timeframe, period) ==
    IF yf_timeframe(timeframe) = "1h" /\ period \in {"1y", "2y", "5y", "10y", "max"}
    THEN "60d"
    ELSE period

\* The periods and intervals the method documents.
HistoryPeriods == {"1d", "5d", "1mo", "3mo", "6mo", "1y", "2y", "5y", "10y", "ytd", "max"}

HistoryTimeframes == {"1h", "1d", "1wk", "1mo"}

\* The day of the year on which a call is made.
DaysOfYear == {31, 200}

\* crawler.get_historical_data(symbol, timeframe, period) on crawler 1; the
\* record keeps the request, the provider's answer and what the provider was
\* asked for, if it was called.
Historical ==
    /\ data_source[1] # "unborn"
    /\ history = <<>>
    /\ \E yh \in CrawlerYahoo, timeframe \in HistoryTimeframes, period \in HistoryPeriods,
          today \in DaysOfYear :
        LET r == get_historical_data(data_source[1], has_yfinance, yh, "X", timeframe, period)
            called == data_source[1] = "yahoo" /\ has_yfinance
        IN history' = <<[op |-> "get_historical_data", timeframe |-> timeframe,
                         period |-> period, today |-> today,
                         data_source |-> data_source[1], lib |-> has_yfinance,
                         called |-> called,
                         answer |-> IF called THEN yh.kind ELSE "none",
                         interval |-> IF called THEN yf_timeframe(timeframe) ELSE "none",
                         asked |-> IF called THEN yf_period(timeframe, period) ELSE "none",
                         outcome |-> r.outcome, source |-> r.source,
                         mock_calls |-> Len(r.mock_calls)]>>
    /\ UNCHANGED <<crawlerVars, pipeVars, dbVars, bulkVars>>

HistoricalNext == Construct(1) \/ Historical

\* A crawler is constructed and asked for one historical series.
SpecHistorical == Init /\ [][HistoricalNext]_vars

\* ---------------------------------------------------------------- read API
\* timeframe_mapping
timeframe_mapping ==
    [p \in {"1h", "1d", "1w", "1m"} |->
        IF p = "1h" THEN "hourly" ELSE IF p = "1d" THEN "daily"
        ELSE IF p = "1w" THEN "weekly" ELSE "monthly"]

\* db_timeframe: the timeframe parameter, replaced by the mapping of period
\* whenever period is one of the mapping's keys.
db_timeframe(period, timeframe) ==
    IF period \in DOMAIN timeframe_mapping THEN timeframe_mapping[period] ELSE timeframe

\* ORDER BY timestamp DESC LIMIT limit
RECURSIVE OrderDescLimit(_, _)
OrderDescLimit(rows, limit) ==
    IF rows = <<>> \/ limit <= 0 THEN <<>>
    ELSE LET top == CHOOSE i \in 1..Len(rows) :
                        \A j \in 1..Len(rows) :
                            Num(rows[j]["timestamp"]) <= Num(rows[i]["timestamp"])
             rest == [j \in 1..(Len(rows) - 1) |-> IF j < top THEN rows[j] ELSE rows[j + 1]]
         IN <<rows[top]>> \o OrderDescLimit(rest, limit - 1)

\* result.reverse()
Reverse(seq) == [i \in 1..Len(seq) |-> seq[Len(seq) + 1 - i]]

\* One element of the response; table is the table the row was read from.
ResponseRow(row, timeframe, table) ==
    [symbol |-> row["symbol"], timestamp |-> row["timestamp"], timeframe |-> timeframe,
     open |-> row["open"], high |-> row["high"], low |-> row["low"],
     close |-> row["close"], volume |-> row["volume"], table |-> table]

\* get_stock_data(symbol, period, timeframe, limit) over the two tables.
get_stock_data(v2, legacy, symbol, period, timeframe, limit) ==
    LET tf == db_timeframe(period, timeframe)
        hits == SelectSeq(v2, LAMBDA r : r["symbol"] = Cell(symbol) /\ r["timeframe"] = Cell(tf))
        olds == SelectSeq(legacy, LAMBDA r : r["symbol"] = Cell(symbol))
    IN IF CountRows(v2, symbol, tf) > 0
       THEN LET rows == OrderDescLimit(hits, limit) IN
            Reverse([i \in 1..Len(rows) |->
                        ResponseRow(rows[i], rows[i]["timeframe"], "stock_data_v2")])
       ELSE IF Len(olds) = 0 THEN <<>>
       ELSE LET rows == OrderDescLimit(olds, limit) IN
            Reverse([i \in 1..Len(rows) |-> ResponseRow(rows[i], Cell(tf), "stock_data")])

\* The requests of the model.
Periods == {"1d", "1w", "5d"}

Limits == {1, 100}

\* GET /data/{symbol}: the request is answered from the committed tables.
GetStockData ==
    /\ history = <<>>
    /\ \E symbol \in Units, period \in Periods, timeframe \in {"daily", "weekly"},
          limit \in Limits :
        history' = <<[op |-> "get_stock_data", symbol |-> symbol, period |-> period,
                      timeframe |-> timeframe, limit |-> limit,
                      queried |-> db_timeframe(period, timeframe),
                      held |-> CountRows(stock_data_v2, symbol, timeframe),
                      legacy |-> Len(RowsOf(stock_data, symbol)),
                      rows |-> get_stock_data(stock_data_v2, stock_data, symbol, period,
                                              timeframe, limit)]>>
    /\ UNCHANGED <<crawlerVars, pipeVars, dbVars, bulkVars>>

ReadNext == BulkNext \/ GetStockData

\* A bulk transfer fills the tables; a request is answered at any moment.
SpecRead == BulkInit /\ [][ReadNext]_vars

Next == CrawlerNext \/ PipelineNext \/ BulkNext \/ GetStockData \/ MultiNext \/ StageNext \/ MockIntraday \/ Enrich \/ Historical

Spec == Init /\ [][Next]_vars

\* ------------------------------------------------------------------ claims
\* A tuple of a statement is stored: some row has its key and, in every
\* column the statement names, its value.
Stored(table, t, columns, keys) ==
    \E j \in 1..Len(table) :
        /\ Conflicts(table[j], t, columns, keys)
        /\ \A c \in Range(columns) : table[j][c] = t[c]

BatchStoredBy(table, stmt, keys) ==
    \A i \in 1..Len(stmt.tuples) : Stored(table, stmt.tuples[i], stmt.columns, keys)

BatchStored(table, stmt) == BatchStoredBy(table, stmt, KeyCols)

\* C1: upserting a staged blob's rows into the versioned table a second time
\* leaves the table exactly as the first upsert left it (same rows, same row
\* count for the symbol, same values), and no two rows share
\* (symbol, timestamp, timeframe).
C1_UpsertTwiceSame ==
    \A k \in DOMAIN minio :
        LET stmt == InsertStatement(read_csv(minio[k]))
            once == Upsert(stock_data_v2, stmt, KeyCols, V2Cols)
            twice == Upsert(once, stmt, KeyCols, V2Cols)
        IN /\ twice = once
           /\ Len(RowsOf(twice, k[1])) = Len(RowsOf(once, k[1]))
           /\ UniqueKeys(once, KeyCols)
           /\ UniqueKeys(stock_data_v2, KeyCols)

\* C1 witness: a staged blob has been upserted and committed, so that a
\* further upsert of it meets a conflict on each of its rows.
C1_Witness ==
    \E k \in DOMAIN minio :
        /\ upserted["X"].n >= 1
        /\ upserted["X"].stmt = InsertStatement(read_csv(minio[k]))
        /\ Len(upserted["X"].stmt.tuples) >= 2
        /\ BatchStored(stock_data_v2, upserted["X"].stmt)

\* C2 (as claimed): after a committed upsert, the stored row of each of its
\* keys holds the new row's value in every non-key column, an indicator the
\* new batch does not carry being NULL.
C2_AllNonKeyColumnsOverwritten ==
    \A u \in Units :
        upserted[u].n > 0 =>
            \A i \in 1..Len(upserted[u].stmt.tuples) :
                LET t == upserted[u].stmt.tuples[i]
                    columns == upserted[u].stmt.columns
                IN \E j \in 1..Len(stock_data_v2) :
                    /\ Conflicts(stock_data_v2[j], t, columns, KeyCols)
                    /\ \A c \in Range(BaseCols \o IndicatorCols) :
                          stock_data_v2[j][c] = IF c \in Range(columns) THEN t[c] ELSE NaN

\* C3: when a unit's pipeline is run again and the provider offers what it
\* offered for the previous committed run, the commit of the second run leaves
\* the versioned table as it was.
C3_RerunChangesNothing ==
    [][\A u \in Units :
          (/\ insert_state[u] = "running"
           /\ upserted'[u].n = upserted[u].n + 1
           /\ upserted'[u].same)
          => stock_data_v2' = stock_data_v2]_vars

\* C3 witness: a second run has committed the data of the previous run, a
\* series with indicator columns.
C3_Witness ==
    /\ upserted["X"].same
    /\ upserted["X"].n >= 2
    /\ run["X"] >= 2
    /\ "volatility_10d" \in Range(upserted["X"].stmt.columns)

\* C8 (as claimed): a unit for which staging or the upsert raised ends with a
\* failed task; a unit whose upsert was rolled back is not reported succeeded.
C8_RaisedMeansFailed ==
    \A u \in Units :
        raised[u] \in {"staging", "upsert"} =>
            (crawl_state[u] = "failed" \/ insert_state[u] = "failed")

RolledBack(u) == raised[u] = "upsert"

Committed(u) ==
    /\ insert_state[u] = "success"
    /\ crawl_result[u] # None
    /\ raised[u] = "none"

\* C10: when the upsert of one unit was rolled back and the insert task of
\* another unit has committed, every row of the other unit's batch is in the
\* versioned table, and the rows of the failed unit are those of its latest
\* committed upsert (none if it never committed).
C10_RollbackIsolated ==
    \A x, y \in Units :
        (x # y /\ RolledBack(x) /\ Committed(y)) =>
            /\ BatchStored(stock_data_v2, TaskStatement(y))
            /\ BatchStored(stock_data_v2, upserted[x].stmt)
            /\ upserted[x].n = 0 => RowsOf(stock_data_v2, x) = <<>>

\* C10 witness: X's upsert was rolled back in a run in which Y committed a
\* batch, X having committed nothing before.
C10_Witness ==
    /\ RolledBack("X")
    /\ upserted["X"].n = 0
    /\ Committed("Y")
    /\ Len(RowsOf(stock_data_v2, "Y")) >= 2

\* C4 (as claimed): a crawler configured with the primary source and a key,
\* whose primary provider throttles and whose secondary provider is
\* unreachable, returns from a fetch a non-empty series of the synthetic
\* adapter.
C4_FallsBackToSynthetic ==
    \A c \in Crawlers :
        (data_source[c] = "alphavantage" /\ last_call[c].chain_fails) =>
            /\ last_call[c].outcome = "series"
            /\ last_call[c].nrows > 0
            /\ last_call[c].source = "mock"

\* C5 (as claimed): no fetch method lets an exception reach its caller.
C5_FetchNeverRaises ==
    \A c \in Crawlers : last_call[c].outcome # "raised"

\* C6 (as claimed): every run of a synthetic generator ends normally with a
\* non-empty series.
C6_GeneratorNeverFails ==
    \A c \in Crawlers :
        \A i \in 1..Len(last_call[c].mock_calls) :
            /\ ~last_call[c].mock_calls[i].raised
            /\ last_call[c].mock_calls[i].nrows > 0

\* C7: an instance whose probe failed has data source "mock" from then on,
\* has run the probe once, and none of its fetches calls a provider: each
\* goes to a synthetic generator only.
C7_StickyDowngrade ==
    \A c \in Crawlers :
        probe_failed[c] =>
            /\ data_source[c] = "mock"
            /\ probes[c] = 1
            /\ Range(last_call[c].attempts) \subseteq {"mock"}
            /\ last_call[c].method # "none" => last_call[c].attempts # <<>>

\* C7 witness: an instance whose probe failed has fetched from the synthetic
\* adapter at a time when another instance's probe had succeeded.
C7_Witness ==
    \E c, d \in Crawlers :
        /\ probe_failed[c]
        /\ probes[d] = 1 /\ ~probe_failed[d]
        /\ last_call[c].method = "get_intraday_data"
        /\ last_call[c].lib
        /\ last_call[c].source = "mock"

\* Every tuple of the statement has a row with its key in the table.
KeysPresent(table, stmt, keys) ==
    \A i \in 1..Len(stmt.tuples) :
        \E j \in 1..Len(table) : Conflicts(table[j], stmt.tuples[i], stmt.columns, keys)

\* C9: when the bulk transfer has ended, the rows of every file it processed
\* without error are in both tables, although the processing of another file
\* raised and was rolled back.
C9_ErrorRollsBackOnlyThatFile ==
    bulk_pc = "done" =>
        \A i \in ok_files :
            LET stmts == FileStatements(minio, files[i + 1].Key) IN
            /\ KeysPresent(stock_data, stmts.legacy, LegacyKeyCols)
            /\ KeysPresent(stock_data_v2, stmts.v2, KeyCols)

\* C11 (as claimed): once a unit's insert task has committed, every timestamp
\* of the staged series has a row in the legacy table (key symbol, timestamp)
\* and a row in the versioned table (key symbol, timestamp, timeframe).
C11_RowInBothTables ==
    \A u \in Units :
        Committed(u) =>
            LET stmt == TaskStatement(u) IN
            /\ KeysPresent(stock_data_v2, stmt, KeyCols)
            /\ KeysPresent(stock_data, stmt, LegacyKeyCols)

\* C12 (as claimed): the rows a unit's insert task has committed are found
\* under the unit's timeframe key, the value its own row-count check, the bulk
\* transfer and the read API look for.
C12_StoredUnderTimeframeKey ==
    \A u \in Units :
        (Committed(u) /\ Len(TaskStatement(u).tuples) > 0) =>
            /\ CountRows(stock_data_v2, u, TimeframeKey(u)) >= 1
            /\ \A j \in 1..Len(stock_data_v2) :
                  stock_data_v2[j]["symbol"] = Cell(u)
                      => stock_data_v2[j]["timeframe"] = Cell(TimeframeKey(u))

\* The unit's crawl ended with an empty series: no result, or one of no row.
EmptyResult(res) == res = None \/ res.row_count = 0

\* C13: a crawl task that fetched an empty series returns None and leaves
\* the blob store untouched, and the insert task of such a unit ends without
\* opening a transaction: blob store and both tables are as they were.
C13_EmptySeriesTouchesNothing ==
    [][\A u \in Units :
          /\ (/\ crawl_state[u] = "scheduled"
              /\ crawl_state'[u] = "success"
              /\ EmptyResult(crawl_result'[u]))
             => /\ crawl_result'[u] = None
                /\ <<bucket, minio, stock_data, stock_data_v2, tx>>'
                     = <<bucket, minio, stock_data, stock_data_v2, tx>>
          /\ (/\ crawl_state[u] = "success"
              /\ insert_state[u] = "waiting"
              /\ insert_state'[u] # "waiting"
              /\ EmptyResult(crawl_result[u]))
             => /\ insert_state'[u] = "success"
                /\ <<bucket, minio, stock_data, stock_data_v2, tx>>'
                     = <<bucket, minio, stock_data, stock_data_v2, tx>>]_vars

\* C13 witness: X's crawl fetched an empty series and its insert task has
\* ended, while the blob store and the table hold what Y staged and committed.
C13_Witness ==
    /\ crawl_state["X"] = "success"
    /\ crawl_result["X"] = None
    /\ insert_state["X"] = "success"
    /\ Committed("Y")
    /\ DOMAIN minio # {}
    /\ Len(stock_data_v2) >= 2

\* C14 (as claimed): a request is answered from the versioned table whenever
\* that table holds a row for the requested symbol and timeframe, from the
\* legacy table only when it holds none, and never from both.
C14_VersionedTableFirst ==
    \A n \in 1..Len(history) :
        LET call == history[n]
            tables == {call.rows[i].table : i \in 1..Len(call.rows)}
        IN call.op = "get_stock_data" =>
            /\ Cardinality(tables) <= 1
            /\ call.held > 0 => tables = {"stock_data_v2"}
            /\ call.held = 0 => tables \subseteq {"stock_data"}

\* C15 (as claimed): with the Alpha Vantage source, get_multiple_stocks never
\* makes more than five fetches in a row without a cooldown, whatever fetches
\* succeed or come back empty, and it cools down only after a burst of five.
C15_BurstOfFiveThenCooldown ==
    (data_source[1] = "alphavantage" /\ history # <<>> /\ history[1].op = "get_multiple_stocks") =>
        /\ \A k \in 1..(Len(history) - RATE_BURST) :
              ~(\A j \in k..(k + RATE_BURST) : IsFetch(history[j]))
        /\ \A k \in 1..Len(history) :
              history[k].op = "sleep" =>
                  /\ k > RATE_BURST
                  /\ \A j \in (k - RATE_BURST)..(k - 1) : IsFetch(history[j])

\* C16 (as claimed): a stage call ends by its own logic.  When the bucket was
\* absent and its creation and the upload succeed the object is written, by
\* one upload; when creation keeps failing the call gives up, so no call is
\* ended by the interpreter's recursion limit.
C16_StageCallEnds ==
    /\ \A k \in 1..Len(history) :
          history[k].op = "raise" => history[k].error # "RecursionError"
    /\ \A k \in 1..Len(history) :
          (history[k].op = "return" /\ history[k].uploaded) =>
              /\ history[1].key \in DOMAIN minio
              /\ Cardinality({j \in 1..Len(history) : history[j].op = "return"}) = 1

\* C17 (as claimed): every series a fetch returns, a synthetic one too, is
\* ascending by timestamp and holds no timestamp twice.
C17_SeriesAscending ==
    \A n \in 1..Len(history) :
        history[n].op = "get_intraday_data" =>
            LET rows == history[n].df.rows IN
            \A i, j \in 1..Len(rows) :
                i < j => Num(rows[i]["timestamp"]) < Num(rows[j]["timestamp"])

\* C18 (as claimed): two synthetic calls with the same inputs return the same
\* series, whenever and in whichever process they are made.
C18_SyntheticDeterministic ==
    \A m, n \in 1..Len(history) :
        (/\ history[m].op = "get_intraday_data" /\ history[n].op = "get_intraday_data"
         /\ history[m].source = "mock" /\ history[n].source = "mock"
         /\ history[m].symbol = history[n].symbol
         /\ history[m].interval = history[n].interval)
            => history[m].df = history[n].df

\* Indicator c has a value at point i of the frame.
Present(df, c, i) == c \in Range(df.columns) /\ NotNa(df.rows[i][c])

Enriched == {k \in 1..Len(history) : history[k].op = "_add_basic_indicators"}

SmaColumn(n) == IF n = SMA_SHORT THEN "sma_20" ELSE IF n = SMA_MID THEN "sma_50" ELSE "sma_200"

\* C19: after enrichment of a series of length L, for n in {20, 50, 200},
\* sma_n has a value at point i exactly when i >= n; so it is absent at the
\* first n-1 points, present from the n-th on, and absent everywhere when L < n.
C19_SmaFromNthPoint ==
    \A k \in Enriched :
        LET df == history[k].df IN
        \A n \in {SMA_SHORT, SMA_MID, SMA_LONG} :
            \A i \in 1..Len(df.rows) : Present(df, SmaColumn(n), i) <=> i >= n

\* A series longer than 200 points was enriched: sma_200 is absent at point
\* 199 and present at points 200 and 201.
C19_Witness ==
    \E k \in Enriched :
        LET df == history[k].df IN
        /\ Len(df.rows) > SMA_LONG
        /\ ~Present(df, "sma_200", SMA_LONG - 1)
        /\ Present(df, "sma_200", SMA_LONG)
        /\ Present(df, "sma_200", SMA_LONG + 1)
        /\ ~Present(df, "sma_20", SMA_SHORT - 1)
        /\ Present(df, "sma_20", SMA_SHORT)

\* C20: after enrichment, volatility_10d has a value at point i exactly when
\* i > 10: absent at the first 10 points (the first point has no return),
\* present at every later point, absent everywhere in a series of 10 points
\* or fewer.
C20_VolatilityFromEleventhPoint ==
    \A k \in Enriched :
        LET df == history[k].df IN
        \A i \in 1..Len(df.rows) : Present(df, "volatility_10d", i) <=> i > VOL_WINDOW

\* A series of more than 11 points was enriched: volatility_10d is absent at
\* point 10, where nine returns exist, and present at points 11 and 12.
C20_Witness ==
    \E k \in Enriched :
        LET df == history[k].df IN
        /\ Len(df.rows) > VOL_WINDOW + 1
        /\ "volatility_10d" \in Range(df.columns)
        /\ NotNa(df.rows[VOL_WINDOW]["daily_return"])
        /\ ~Present(df, "volatility_10d", VOL_WINDOW)
        /\ Present(df, "volatility_10d", VOL_WINDOW + 1)
        /\ Present(df, "volatility_10d", VOL_WINDOW + 2)

\* C21: enrichment returns, for a series of any length (0 and 1 too), a frame
\* with the same points in the same order, whose symbol, timestamp, timeframe
\* and OHLCV fields are those of the frame it was given.
C21_EnrichmentKeepsPoints ==
    \A k \in Enriched :
        LET in == history[1].df
            out == history[k].df
        IN /\ Len(out.rows) = Len(in.rows)
           /\ SubSeq(out.columns, 1, Len(in.columns)) = in.columns
           /\ \A i \in 1..Len(in.rows) :
                 \A c \in Range(KeyCols \o BaseCols) : out.rows[i][c] = in.rows[i][c]

\* A series of one point was enriched: the point is returned with its
\* fields, and daily_return was added, without a value.
C21_Witness ==
    \E k \in Enriched :
        /\ Len(history[1].df.rows) = 1
        /\ Len(history[k].df.rows) = 1
        /\ history[k].df.rows[1]["close"] = history[1].df.rows[1]["close"]
        /\ "daily_return" \in Range(history[k].df.columns)
        /\ ~Present(history[k].df, "daily_return", 1)

\* C22 (as claimed): after a committed upsert, an indicator that the enriched
\* series does not carry for a point (its column is missing from the frame or
\* its field is empty) is NULL in the stored row of that point.
C22_AbsentIndicatorStoredNull ==
    \A u \in Units :
        upserted[u].n > 0 =>
            \A i \in 1..Len(upserted[u].stmt.tuples) :
                LET t == upserted[u].stmt.tuples[i]
                    columns == upserted[u].stmt.columns
                IN \A j \in 1..Len(stock_data_v2) :
                    Conflicts(stock_data_v2[j], t, columns, KeyCols) =>
                        \A c \in Range(IndicatorCols) :
                            (c \notin Range(columns) \/ t[c] = NaN) => stock_data_v2[j][c] = NaN

\* The days a period spans when asked for on day-of-year today.
PeriodDays(period, today) ==
    IF period = "1d" THEN 1
    ELSE IF period = "5d" THEN 5
    ELSE IF period = "1mo" THEN 30
    ELSE IF period = "60d" THEN 60
    ELSE IF period = "3mo" THEN 90
    ELSE IF period = "6mo" THEN 180
    ELSE IF period = "1y" THEN 365
    ELSE IF period = "2y" THEN 2 * 365
    ELSE IF period = "5y" THEN 5 * 365
    ELSE IF period = "10y" THEN 10 * 365
    ELSE IF period = "ytd" THEN today
    ELSE 100 * 365

\* C23 (as claimed): when the provider is called for the hourly interval with
\* a period longer than 60 days it is asked for "60d", and for the daily,
\* weekly and monthly intervals it is asked for the requested period.
C23_HourlyPeriodClamped ==
    \A k \in 1..Len(history) :
        (history[k].op = "get_historical_data" /\ history[k].called) =>
            /\ (history[k].timeframe = "1h"
                    /\ PeriodDays(history[k].period, history[k].today) > 60)
                  => history[k].asked = "60d"
            /\ history[k].timeframe \in {"1d", "1wk", "1mo"}
                  => history[k].asked = history[k].period

\* C24: when the provider is called and returns no rows, get_historical_data
\* returns the empty series and the generator is not called; a crawler of the
\* secondary source calls the generator only when the provider raised or the
\* library is unavailable.
C24_EmptyIsNoData ==
    \A k \in 1..Len(history) :
        (history[k].op = "get_historical_data" /\ history[k].data_source = "yahoo") =>
            /\ history[k].answer = "empty"
                  => (history[k].outcome = "empty" /\ history[k].mock_calls = 0)
            /\ (history[k].mock_calls > 0 \/ history[k].source = "mock")
                  => (~history[k].lib \/ history[k].answer = "error")

\* The provider was called, returned no rows, and the call returned empty.
C24_Witness ==
    \E k \in 1..Len(history) :
        /\ history[k].op = "get_historical_data"
        /\ history[k].called
        /\ history[k].answer = "empty"
        /\ history[k].outcome = "empty"
        /\ history[k].mock_calls = 0

\* C25: while a unit has a crawl result, the result's path resolves to the
\* key crawl_stock_data wrote in the unit's current run; the blob under that
\* key is the one staged for the unit's symbol and timeframe key, the insert
\* task's statement is built from it, and row_count is its number of rows.
C25_PathResolvesToStagedBlob ==
    \A u \in Units :
        crawl_result[u] # None =>
            LET key == ResolveKey(crawl_result[u].file_path) IN
            /\ key = ObjectKey(u, TimeframeKey(u), run[u])
            /\ key \in DOMAIN minio
            /\ crawl_result[u].row_count = Len(read_csv(minio[key]).rows)
            /\ crawl_result[u].row_count > 0
            /\ \A i \in 1..Len(minio[key].lines) :
                  read_csv(minio[key]).rows[i]["symbol"] = Cell(u)
            /\ tx[u].open => tx[u].stmt = InsertStatement(read_csv(minio[key]))

\* In its second run X staged a blob beside the first run's, and its insert
\* task has read it.
C25_Witness ==
    /\ run["X"] = 2
    /\ crawl_result["X"] # None
    /\ ObjectKey("X", TimeframeKey("X"), 1) \in DOMAIN minio
    /\ ObjectKey("X", TimeframeKey("X"), 2) \in DOMAIN minio
    /\ minio[ObjectKey("X", TimeframeKey("X"), 1)] # minio[ObjectKey("X", TimeframeKey("X"), 2)]
    /\ tx["X"].open
    /\ Len(tx["X"].stmt.tuples) >= 2

\* C26 (as claimed): a request that leaves period at its default "1d" and
\* names a timeframe queries the versioned table for that timeframe, and the
\* rows it returns carry that timeframe.
C26_FiltersByTimeframeParameter ==
    \A n \in 1..Len(history) :
        (history[n].op = "get_stock_data" /\ history[n].period = "1d") =>
            /\ history[n].queried = history[n].timeframe
            /\ \A i \in 1..Len(history[n].rows) :
                  history[n].rows[i].timeframe = Cell(history[n].timeframe)

\* The (symbol, timestamp) pairs of a table's rows.
Points(table) == {<<table[j]["symbol"], table[j]["timestamp"]>> : j \in 1..Len(table)}

\* C27: the committed tables of a bulk transfer that started on empty tables
\* hold the same points: a (symbol, timestamp) is in the legacy table exactly
\* when a row with that symbol and timestamp is in the versioned table.
C27_BothTablesTogether == Points(stock_data) = Points(stock_data_v2)

\* The transfer has ended; the file at index 0 was committed to both tables
\* and a later file, a CSV with rows, was rolled back.
C27_Witness ==
    /\ bulk_pc = "done"
    /\ 0 \in ok_files
    /\ Len(stock_data) >= 2
    /\ Len(stock_data_v2) >= 2
    /\ \E i \in 1..(Len(files) - 1) :
          /\ i \notin ok_files
          /\ endswith_csv(files[i + 1].Key)
          /\ ~IsEmpty(read_csv(minio[files[i + 1].Key]))

\* The files of the listing whose statements ran without error and whose
\* rows are in the committed versioned table.
Written == {i \in ok_files : KeysPresent(stock_data_v2, FileStatements(minio, files[i + 1].Key).v2, KeyCols)}

\* Files a and b are of one symbol and of different timeframes.
SameSymbolOtherTimeframe(a, b) ==
    /\ files[a + 1].Key[1] = files[b + 1].Key[1]
    /\ files[a + 1].Key[2] # files[b + 1].Key[2]

\* C28: when the bulk transfer has ended, the legacy table holds one row per
\* (symbol, timestamp); for two written files of one symbol and different
\* timeframes that row holds the values of the file processed last, while
\* the versioned table holds a row per timeframe; and the legacy table never
\* holds more rows than the versioned one.
C28_OneLegacyRowTwoVersionedRows ==
    /\ Len(stock_data) <= Len(stock_data_v2)
    /\ UniqueKeys(stock_data, LegacyKeyCols)
    /\ bulk_pc = "done" =>
          \A a, b \in Written :
              (a < b /\ SameSymbolOtherTimeframe(a, b)) =>
                  LET sa == FileStatements(minio, files[a + 1].Key)
                      sb == FileStatements(minio, files[b + 1].Key)
                  IN /\ BatchStoredBy(stock_data, sb.legacy, LegacyKeyCols)
                     /\ BatchStoredBy(stock_data_v2, sa.v2, KeyCols)
                     /\ BatchStoredBy(stock_data_v2, sb.v2, KeyCols)
                     /\ Len(RowsOf(stock_data_v2, files[a + 1].Key[1])) =
                            2 * Len(RowsOf(stock_data, files[a + 1].Key[1]))

\* Two files of X, daily and weekly, with the same timestamps and different
\* prices, were both written.
C28_Witness ==
    /\ bulk_pc = "done"
    /\ \E a, b \in Written :
          /\ a < b
          /\ SameSymbolOtherTimeframe(a, b)
          /\ FileStatements(minio, files[a + 1].Key).legacy
                # FileStatements(minio, files[b + 1].Key).legacy
          /\ Len(RowsOf(stock_data, files[a + 1].Key[1])) = 2
          /\ Len(RowsOf(stock_data_v2, files[a + 1].Key[1])) = 4

\* C29: a unit's insert task has started only if the unit's crawl task has
\* finished; a task waits for tasks of its own unit only, so a unit's crawl
\* can start and its insert can start after its crawl whatever the other
\* units' tasks are doing; each unit has one crawl and one insert task.
C29_InsertAfterOwnCrawl ==
    \A u \in Units :
        /\ insert_state[u] \in {"running", "success", "failed"} => crawl_state[u] = "success"
        /\ \A task \in Tasks : \A t \in Upstream(task) : t[2] = task[2]
        /\ crawl_state[u] = "scheduled" => UpstreamDone(<<"crawl", u>>)
        /\ (crawl_state[u] = "success" /\ insert_state[u] = "waiting")
              => UpstreamDone(<<"insert_to_db", u>>)
        /\ Cardinality({task \in Tasks : task[2] = u /\ task[1] = "crawl"}) = 1
        /\ Cardinality({task \in Tasks : task[2] = u /\ task[1] = "insert_to_db"}) = 1

\* X's insert task runs after X's crawl while Y's crawl has not started.
C29_Witness ==
    /\ crawl_state["X"] = "success"
    /\ insert_state["X"] = "running"
    /\ crawl_state["Y"] = "scheduled"
    /\ insert_state["Y"] = "waiting"

\* C30: no step of a process's crawlers (construction or fetch) takes
\* has_yfinance from True to False, and a crawler constructed while the flag
\* is True does not probe.
C30_FlagOnlyRises ==
    [][/\ has_yfinance => has_yfinance'
       /\ \A c \in Crawlers :
             (has_yfinance /\ data_source[c] = "unborn" /\ data_source'[c] # "unborn")
                => (probes'[c] = 0 /\ ~probe_failed'[c])]_vars

\* One crawler's probe succeeded; another crawler of the secondary source
\* was constructed later without probing and has made a fetch.
C30_Witness ==
    /\ has_yfinance
    /\ \E c, d \in Crawlers :
          /\ probes[c] = 1
          /\ ~probe_failed[c]
          /\ data_source[d] = "yahoo"
          /\ probes[d] = 0
          /\ last_call[d].method # "none"
          /\ last_call[c].method # "none"

====
